---- MODULE Spec2Model ----
(***************************************************************************)
(* State-machine model of the XRP price alert bot: the price service and   *)
(* the trend analyzer of src/src/main.py and the HTTP handlers of          *)
(* src/src/api.py.                                                         *)
(*                                                                         *)
(* Money is counted in cents (2.50 is 250).  Numbers the analyzer works on *)
(* are exact rationals [n, d] in lowest terms with d > 0; binary rounding  *)
(* of Python floats is not modelled.  Wall-clock timestamps that the       *)
(* handlers put in their answers are left out of the answers.              *)
(***************************************************************************)
EXTENDS Integers, Sequences, FiniteSets, TLC

VARIABLES
    alerts,         \* XRPPriceService.alerts: the ordered list of PriceAlert
    current_price,  \* XRPPriceService.current_price: a JSON value, Null at start
    born,           \* history: born[k] is the insertion ordinal of alerts[k]
    inserted,       \* history: number of alerts ever put in the list
    op,             \* the operation that ran last
    request,        \* its input
    status,         \* its HTTP status (200 for a plain return)
    result,         \* its answer (body, return value or error detail)
    fetched         \* what get_historical_price returned in it (Null if not called)

vars == <<alerts, current_price, born, inserted, op, request, status, result, fetched>>

---------------------------------------------------------------------------
(* Bounds of the model.                                                    *)

\* alerts that POST /alerts may add in one run
MaxPosts == 2
\* longest price sequence handed to analyze_price_trend directly
MaxLen == 3

---------------------------------------------------------------------------
(* JSON values: what a response body may carry in the "price" field and    *)
(* what current_price may therefore hold.                                  *)

Null == [t |-> "null", v |-> 0]
Num(x) == [t |-> "num", v |-> x]
Str == [t |-> "str", v |-> 0]

IsNum(j) == j.t = "num"

\* Python truthiness of a JSON value: None and 0 are falsy, "abc" is truthy
Truthy(j) == (j.t = "num" /\ j.v # 0) \/ j.t = "str"

---------------------------------------------------------------------------
(* Exact rationals.                                                        *)

Abs(x) == IF x < 0 THEN -x ELSE x

RECURSIVE GCD(_, _)
GCD(a, b) == IF b = 0 THEN a ELSE GCD(b, a % b)

R(n, d) ==
    LET g == GCD(Abs(n), Abs(d))
        s == IF d < 0 THEN -1 ELSE 1
    IN  [n |-> s * (n \div g), d |-> s * (d \div g)]

RInt(x) == [n |-> x, d |-> 1]
RAdd(a, b) == R(a.n * b.d + b.n * a.d, a.d * b.d)
RSub(a, b) == R(a.n * b.d - b.n * a.d, a.d * b.d)
RMul(a, b) == R(a.n * b.n, a.d * b.d)
RDiv(a, b) == R(a.n * b.d, a.d * b.n)
RLt(a, b) == a.n * b.d < b.n * a.d
RAbs(a) == [n |-> Abs(a.n), d |-> a.d]
RMin(a, b) == IF RLt(b, a) THEN b ELSE a

\* max and min of s[lo .. hi], lo <= hi
RECURSIVE RMaxRange(_, _, _)
RMaxRange(s, lo, hi) ==
    IF lo = hi THEN s[lo]
    ELSE LET mid == (lo + hi) \div 2
             a == RMaxRange(s, lo, mid)
             b == RMaxRange(s, mid + 1, hi)
         IN  IF RLt(a, b) THEN b ELSE a

RECURSIVE RMinRange(_, _, _)
RMinRange(s, lo, hi) ==
    IF lo = hi THEN s[lo]
    ELSE LET mid == (lo + hi) \div 2
             a == RMinRange(s, lo, mid)
             b == RMinRange(s, mid + 1, hi)
         IN  IF RLt(b, a) THEN b ELSE a

\* max(s) and min(s) of a non-empty sequence
RMaxSeq(s) == RMaxRange(s, 1, Len(s))
RMinSeq(s) == RMinRange(s, 1, Len(s))

\* format(x, ".<k>f"): x rounded to k decimals (ties to even), as the integer
\* number of 10^-k units
RECURSIVE Pow10(_)
Pow10(k) == IF k = 0 THEN 1 ELSE 10 * Pow10(k - 1)

FormatFixed(x, k) ==
    LET num == Abs(x.n) * Pow10(k)
        q == num \div x.d
        r2 == 2 * (num % x.d)
        up == r2 > x.d \/ (r2 = x.d /\ q % 2 = 1)
        m == IF up THEN q + 1 ELSE q
    IN  IF x.n < 0 THEN -m ELSE m

---------------------------------------------------------------------------
(* main.py: PriceAlert and XRPPriceService.                                *)

\* the two conditions check_alerts and configure_alert know
Conditions == {"greater_than", "less_than"}

\* PriceAlert(...): pydantic checks the field types only (condition: str), so
\* every well-typed call yields the object
PriceAlert(symbol, threshold, condition, enabled) ==
    [symbol |-> symbol, threshold |-> threshold,
     condition |-> condition, enabled |-> enabled]

\* XRPPriceService.__init__ followed by get_price_service's default alerts
DefaultAlerts ==
    << PriceAlert("xrpusd", 250, "greater_than", TRUE),
       PriceAlert("xrpusd", 200, "less_than", TRUE) >>

\* variant of alert_outcome comparing with >= and <=
alert_outcome_inclusive(alert, price) ==
    IF alert.condition = "greater_than" /\ price >= alert.threshold THEN "crossed"
    ELSE IF alert.condition = "less_than" /\ price <= alert.threshold THEN "dropped"
    ELSE "none"

\* what one enabled alert does at a price: which branch of the if/elif appends
alert_outcome(alert, price) ==
    IF alert.condition = "greater_than" /\ price > alert.threshold THEN "crossed"
    ELSE IF alert.condition = "less_than" /\ price < alert.threshold THEN "dropped"
    ELSE "none"

\* the dict check_alerts appends; the price in the message is printed with
\* four decimals
TriggeredRecord(template, alert, price) ==
    [type |-> "alert",
     message |-> [template |-> template, threshold |-> alert.threshold,
                  current |-> FormatFixed(R(price, 100), 4)],
     price |-> price,
     threshold |-> alert.threshold]

\* the for loop of check_alerts from position k on
RECURSIVE check_alerts_from(_, _, _, _)
check_alerts_from(als, price, k, triggered) ==
    IF k > Len(als) THEN triggered
    ELSE LET alert == als[k] IN
         IF ~alert.enabled
         THEN check_alerts_from(als, price, k + 1, triggered)
         ELSE LET o == alert_outcome(alert, price) IN
              IF o = "none"
              THEN check_alerts_from(als, price, k + 1, triggered)
              ELSE check_alerts_from(als, price, k + 1,
                       Append(triggered, TriggeredRecord(o, alert, price)))

\* XRPPriceService.check_alerts: the triggered list it returns
check_alerts(als, price) == check_alerts_from(als, price, 1, <<>>)

\* What the price endpoint may do to one GET.  raise: the exception session.get
\* or response.json() raises ("none" if none); code: the HTTP status; body: the
\* shape of the decoded JSON; price: the first element's "price" field.
FetchPrices == {-100, 0, 1, 200, 251}
PriceFields == {Num(x) : x \in FetchPrices} \cup {Null, Str}

FetchOutcome(raise, code, body, price) ==
    [raise |-> raise, code |-> code, body |-> body, price |-> price]

FetchOutcomes ==
    {FetchOutcome("ClientError", 0, "none", Null),
     FetchOutcome("TimeoutError", 0, "none", Null),
     FetchOutcome("none", 503, "none", Null),
     FetchOutcome("ContentTypeError", 200, "none", Null),
     FetchOutcome("none", 200, "empty_array", Null),
     FetchOutcome("none", 200, "null", Null),
     FetchOutcome("KeyError", 200, "array_without_price", Null)}
    \cup {FetchOutcome("none", 200, "array", j) : j \in PriceFields}

\* get_historical_price: the value returned and the stored price afterwards
get_historical_price(o, cur) ==
    IF o.raise \in {"ClientError", "TimeoutError"}
    THEN [ret |-> Null, current_price |-> cur]           \* except: log, return None
    ELSE IF o.code # 200
    THEN [ret |-> Null, current_price |-> cur]
    ELSE IF o.raise = "ContentTypeError"
    THEN [ret |-> Null, current_price |-> cur]           \* response.json() raised
    ELSE IF o.body \in {"empty_array", "null"}
    THEN [ret |-> Null, current_price |-> cur]           \* data is falsy
    ELSE IF o.raise = "KeyError"
    THEN [ret |-> Null, current_price |-> cur]           \* data[0]["price"] raised
    ELSE [ret |-> o.price, current_price |-> o.price]

---------------------------------------------------------------------------
(* main.py: AIPriceAnalyzer.                                               *)

\* _generate_summary: the template chosen by trend, with its numbers printed
\* at two and four decimals
generate_summary(trend, change_pct, volatility) ==
    IF trend = "bullish"
    THEN [template |-> "bullish momentum", pct |-> FormatFixed(RAbs(change_pct), 2),
          vol |-> FormatFixed(volatility, 4)]
    ELSE IF trend = "bearish"
    THEN [template |-> "trending bearish", pct |-> FormatFixed(RAbs(change_pct), 2),
          vol |-> FormatFixed(volatility, 4)]
    ELSE IF trend = "neutral"
    THEN [template |-> "consolidating", pct |-> FormatFixed(change_pct, 2), vol |-> 0]
    ELSE [template |-> "Market analysis pending", pct |-> 0, vol |-> 0]

\* variant of classify comparing with >= 2 and <= -2
classify_inclusive(change_pct) ==
    IF ~RLt(change_pct, RInt(2))
    THEN [trend |-> "bullish",
          confidence |-> RMin(RAdd(R(1, 2), RDiv(change_pct, RInt(10))), R(95, 100))]
    ELSE IF ~RLt(RInt(-2), change_pct)
    THEN [trend |-> "bearish",
          confidence |-> RMin(RAdd(R(1, 2), RDiv(RAbs(change_pct), RInt(10))), R(95, 100))]
    ELSE [trend |-> "neutral", confidence |-> R(7, 10)]

\* the if/elif/else of analyze_price_trend: trend and confidence of a change
classify(change_pct) ==
    IF RLt(RInt(2), change_pct)
    THEN [trend |-> "bullish",
          confidence |-> RMin(RAdd(R(1, 2), RDiv(change_pct, RInt(10))), R(95, 100))]
    ELSE IF RLt(change_pct, RInt(-2))
    THEN [trend |-> "bearish",
          confidence |-> RMin(RAdd(R(1, 2), RDiv(RAbs(change_pct), RInt(10))), R(95, 100))]
    ELSE [trend |-> "neutral", confidence |-> R(7, 10)]

\* analyze_price_trend(prices): raises ZeroDivisionError when prices[0] is 0
analyze_price_trend(prices) ==
    IF Len(prices) < 2
    THEN [raised |-> FALSE, value |-> [trend |-> "unknown", confidence |-> RInt(0)]]
    ELSE LET change == RSub(prices[Len(prices)], prices[1]) IN
         IF prices[1].n = 0
         THEN [raised |-> TRUE, value |-> [detail |-> "ZeroDivisionError"]]
         ELSE LET change_pct == RMul(RDiv(change, prices[1]), RInt(100))
                  volatility == RSub(RMaxSeq(prices), RMinSeq(prices))
                  c == classify(change_pct)
              IN  [raised |-> FALSE,
                   value |-> [trend |-> c.trend,
                              confidence |-> c.confidence,
                              change_pct |-> change_pct,
                              volatility |-> volatility,
                              timeframe |-> "1h",
                              analysis |-> generate_summary(c.trend, change_pct, volatility)]]

---------------------------------------------------------------------------
(* api.py: the handlers.                                                   *)

NoRequest == [nothing |-> TRUE]

\* request bodies of POST /alerts (AlertConfig); "equals" is not a condition
AlertConfigs ==
    {[symbol |-> "xrpusd", threshold |-> 225, condition |-> c, enabled |-> e] :
        c \in Conditions \cup {"equals"}, e \in BOOLEAN}

\* prices check_alerts is called with: on, just under and just over the thresholds
CheckPrices == {199, 200, 201, 225, 250, 251}

\* path parameters of DELETE /alerts/{alert_index}
DeleteIndexes == -1 .. (Len(DefaultAlerts) + MaxPosts)

\* variant of list_pop that ignores i, as list.pop() does
list_pop_last(s, i) ==
    IF Len(s) = 0 THEN s ELSE SubSeq(s, 1, Len(s) - 1)

\* list.pop(i) on a Python list: negative i counts from the end; an index
\* outside the list raises IndexError and leaves the list as it is
list_pop(s, i) ==
    LET n == Len(s)
        pos == IF i < 0 THEN i + n + 1 ELSE i + 1
    IN  IF pos < 1 \/ pos > n THEN s
        ELSE [k \in 1 .. (n - 1) |-> IF k < pos THEN s[k] ELSE s[k + 1]]

\* variant of index_out_of_range without the test for negative indexes
index_out_of_range_upper_only(i, n) == i >= n

\* the guard of delete_alert
index_out_of_range(i, n) == i < 0 \/ i >= n

\* the try body of configure_alert: the HTTPException it raises, or the alert
configure_alert_try(cfg) ==
    IF cfg.condition \notin Conditions
    THEN [raised |-> TRUE, code |-> 400,
          alert |-> PriceAlert(cfg.symbol, cfg.threshold, cfg.condition, cfg.enabled)]
    ELSE [raised |-> FALSE, code |-> 200,
          alert |-> PriceAlert(cfg.symbol, cfg.threshold, cfg.condition, cfg.enabled)]

\* the price history analyze_price simulates: price * (1 + (i - 50) * 0.001)
\* for i in range(100)
SeriesLen == 100
SeriesMid == 50

\* variant of SyntheticSeries with a step of 0.0001
SyntheticSeries_flat(price) ==
    [k \in 1 .. SeriesLen |->
        RMul(RInt(price),
             RAdd(RInt(1), RMul(RInt((k - 1) - SeriesMid), R(1, 10000))))]

\* prices of analyze_price
SyntheticSeries(price) ==
    [k \in 1 .. SeriesLen |->
        RMul(RInt(price),
             RAdd(RInt(1), RMul(RInt((k - 1) - SeriesMid), R(1, 1000))))]

Init ==
    /\ alerts = DefaultAlerts
    /\ current_price = Null
    /\ born = <<1, 2>>
    /\ inserted = 2
    /\ op = "startup_event"
    /\ request = NoRequest
    /\ status = 200
    /\ result = [started |-> TRUE]
    /\ fetched = Null

\* GET /health
health_check ==
    /\ op' = "health_check"
    /\ request' = NoRequest
    /\ status' = 200
    /\ result' = [health |-> "healthy",
                  current_price |-> current_price,
                  alerts_active |-> Cardinality({k \in 1 .. Len(alerts) : alerts[k].enabled})]
    /\ fetched' = Null
    /\ UNCHANGED <<alerts, current_price, born, inserted>>

\* POST /alerts
configure_alert ==
    \E cfg \in AlertConfigs :
        LET t == configure_alert_try(cfg) IN
        /\ op' = "configure_alert"
        /\ request' = cfg
        /\ fetched' = Null
        /\ IF t.raised
           THEN \* except Exception catches the HTTPException(400) and raises a 500
                /\ status' = 500
                /\ result' = [detail |-> "400: Invalid condition"]
                /\ UNCHANGED <<alerts, born, inserted>>
           ELSE /\ inserted < Len(DefaultAlerts) + MaxPosts
                /\ alerts' = Append(alerts, t.alert)
                /\ born' = Append(born, inserted + 1)
                /\ inserted' = inserted + 1
                /\ status' = 200
                /\ result' = [success |-> TRUE, alert |-> t.alert,
                              message |-> [template |-> "Alert configured",
                                           condition |-> t.alert.condition,
                                           threshold |-> t.alert.threshold]]
        /\ UNCHANGED current_price

\* GET /alerts
list_alerts ==
    /\ op' = "list_alerts"
    /\ request' = NoRequest
    /\ status' = 200
    /\ result' = [alerts |-> alerts, total |-> Len(alerts)]
    /\ fetched' = Null
    /\ UNCHANGED <<alerts, current_price, born, inserted>>

\* DELETE /alerts/{alert_index}
delete_alert ==
    \E alert_index \in DeleteIndexes :
        /\ op' = "delete_alert"
        /\ request' = [alert_index |-> alert_index]
        /\ fetched' = Null
        /\ IF index_out_of_range(alert_index, Len(alerts))
           THEN /\ status' = 404
                /\ result' = [detail |-> "Alert not found"]
                /\ UNCHANGED <<alerts, born>>
           ELSE IF Len(list_pop(alerts, alert_index)) = Len(alerts)
           THEN \* pop raised IndexError (no index gets here past the guard above)
                /\ status' = 500
                /\ result' = [detail |-> "Internal Server Error"]
                /\ UNCHANGED <<alerts, born>>
           ELSE /\ alerts' = list_pop(alerts, alert_index)
                /\ born' = list_pop(born, alert_index)
                /\ status' = 200
                /\ result' = [success |-> TRUE,
                              message |-> [template |-> "Alert deleted",
                                           remaining |-> Len(alerts) - 1]]
        /\ UNCHANGED <<current_price, inserted>>

\* variant of check_alerts_call that disables the alerts it reports
check_alerts_call_disabling ==
    \E price \in CheckPrices :
        /\ op' = "check_alerts"
        /\ request' = [price |-> price]
        /\ status' = 200
        /\ result' = [triggered |-> check_alerts(alerts, price)]
        /\ fetched' = Null
        /\ alerts' = [k \in 1 .. Len(alerts) |->
                        IF alerts[k].enabled /\ alert_outcome(alerts[k], price) # "none"
                        THEN [alerts[k] EXCEPT !.enabled = FALSE]
                        ELSE alerts[k]]
        /\ UNCHANGED <<current_price, born, inserted>>

\* XRPPriceService.check_alerts(price), called on the service
check_alerts_call ==
    \E price \in CheckPrices :
        /\ op' = "check_alerts"
        /\ request' = [price |-> price]
        /\ status' = 200
        /\ result' = [triggered |-> check_alerts(alerts, price)]
        /\ fetched' = Null
        /\ UNCHANGED <<alerts, current_price, born, inserted>>

\* PriceAlert(...) constructed by a caller of main.py, outside configure_alert
PriceAlert_call ==
    \E cfg \in AlertConfigs :
        /\ op' = "PriceAlert"
        /\ request' = cfg
        /\ status' = 200
        /\ result' = [object |-> PriceAlert(cfg.symbol, cfg.threshold,
                                            cfg.condition, cfg.enabled)]
        /\ fetched' = Null
        /\ UNCHANGED <<alerts, current_price, born, inserted>>

\* GET /price
get_price ==
    \E o \in FetchOutcomes :
        LET f == get_historical_price(o, current_price)
            price == f.ret
        IN  /\ op' = "get_price"
            /\ request' = o
            /\ current_price' = f.current_price
            /\ fetched' = price
            /\ IF ~Truthy(price)
               THEN /\ status' = 500
                    /\ result' = [detail |-> "Failed to fetch price"]
               ELSE IF ~IsNum(price)
               THEN \* PriceResponse(price="...") fails pydantic's float validation
                    /\ status' = 500
                    /\ result' = [detail |-> "Internal Server Error"]
               ELSE /\ status' = 200
                    /\ result' = [price |-> price.v]
            /\ UNCHANGED <<alerts, born, inserted>>

\* POST /analyze
analyze_price ==
    \E o \in FetchOutcomes :
        LET f == get_historical_price(o, current_price)
            price == f.ret
        IN  /\ op' = "analyze_price"
            /\ request' = o
            /\ current_price' = f.current_price
            /\ fetched' = price
            /\ IF ~Truthy(price)
               THEN /\ status' = 500
                    /\ result' = [detail |-> "Failed to fetch price"]
               ELSE IF ~IsNum(price)
               THEN \* str * float raises TypeError
                    /\ status' = 500
                    /\ result' = [detail |-> "Internal Server Error"]
               ELSE LET analysis == analyze_price_trend(SyntheticSeries(price.v)) IN
                    IF analysis.raised
                    THEN /\ status' = 500
                         /\ result' = [detail |-> "Internal Server Error"]
                    ELSE /\ status' = 200
                         /\ result' = analysis.value
            /\ UNCHANGED <<alerts, born, inserted>>

\* The service with every handler but POST /analyze.
Next ==
    \/ health_check
    \/ configure_alert
    \/ list_alerts
    \/ delete_alert
    \/ check_alerts_call
    \/ PriceAlert_call
    \/ get_price

Spec == Init /\ [][Next]_vars

\* The price side of the service.  analyze_price reads and writes what
\* get_price does (current_price, through get_historical_price) and never the
\* alert list, so its 100-element series is explored with the handlers that
\* share its state only.
NextAnalyze ==
    \/ health_check
    \/ get_price
    \/ analyze_price

SpecAnalyze == Init /\ [][NextAnalyze]_vars

---------------------------------------------------------------------------
(* analyze_price_trend as a function of its argument: the argument is any  *)
(* sequence of at most MaxLen of these prices.                             *)

TrendPrices == {-100, 0, 97, 98, 100, 102, 103, 200}

RECURSIVE SeqsUpTo(_, _)
SeqsUpTo(S, n) ==
    IF n = 0 THEN {<<>>}
    ELSE LET shorter == SeqsUpTo(S, n - 1)
         IN  shorter \cup {Append(q, x) : q \in {r \in shorter : Len(r) = n - 1}, x \in S}

InitTrend ==
    /\ alerts = DefaultAlerts
    /\ current_price = Null
    /\ born = <<1, 2>>
    /\ inserted = 2
    /\ op = "caller"
    /\ request \in {[prices |-> [k \in 1 .. Len(q) |-> RInt(q[k])]] :
                        q \in SeqsUpTo(TrendPrices, MaxLen)}
    /\ status = 200
    /\ result = [started |-> TRUE]
    /\ fetched = Null

analyze_price_trend_call ==
    /\ op = "caller"
    /\ op' = "analyze_price_trend"
    /\ LET a == analyze_price_trend(request.prices) IN
           /\ status' = IF a.raised THEN 500 ELSE 200
           /\ result' = a.value
    /\ UNCHANGED <<alerts, current_price, born, inserted, request, fetched>>

NextTrend == analyze_price_trend_call

SpecTrend == InitTrend /\ [][NextTrend]_vars

---------------------------------------------------------------------------
(* Claims.                                                                 *)

\* the alert triggers at the price, as the specification words it
Triggers(a, p) ==
    /\ a.enabled
    /\ \/ a.condition = "greater_than" /\ p > a.threshold
       \/ a.condition = "less_than" /\ p < a.threshold

\* s without the element at Python index i
Omit(s, i) == SubSeq(s, 1, i) \o SubSeq(s, i + 2, Len(s))

\* the fetch got a non-empty array whose first element carries a numeric price
FetchSucceeded(o) ==
    o.raise = "none" /\ o.code = 200 /\ o.body = "array" /\ IsNum(o.price)

\* C1: check_alerts(price) returns exactly one record per alert that is enabled
\* and satisfies its comparison, in the alerts' order, and nothing else; an
\* alert whose threshold equals the price and a disabled alert never trigger.
C1_CheckAlertsExact ==
    op = "check_alerts" =>
        LET p == request.price
            hit == SelectSeq(alerts, LAMBDA a : Triggers(a, p))
            t == result.triggered
        IN  /\ Len(t) = Len(hit)
            /\ \A k \in 1 .. Len(hit) :
                  /\ t[k].type = "alert"
                  /\ t[k].price = p
                  /\ t[k].threshold = hit[k].threshold
                  /\ t[k].message.threshold = hit[k].threshold
                  /\ t[k].message.template =
                        (IF hit[k].condition = "greater_than" THEN "crossed" ELSE "dropped")
            /\ \A k \in 1 .. Len(hit) : hit[k].enabled /\ hit[k].threshold # p

\* check_alerts has run on a list holding an enabled alert whose threshold is
\* the price, a disabled alert the price is beyond, and an alert that triggered
C1_Witness ==
    /\ op = "check_alerts"
    /\ Len(result.triggered) >= 1
    /\ Len(result.triggered) < Len(alerts)
    /\ \E k \in 1 .. Len(alerts) :
          alerts[k].enabled /\ alerts[k].threshold = request.price
    /\ \E k \in 1 .. Len(alerts) :
          /\ ~alerts[k].enabled
          /\ alerts[k].condition = "greater_than"
          /\ request.price > alerts[k].threshold

\* C2: POST /alerts with a condition that is neither greater_than nor
\* less_than is answered with status 400 and leaves the alert list unchanged;
\* with a recognized condition it answers with the created alert.
C2_InvalidConditionIs400 ==
    [][op' = "configure_alert" =>
          IF request'.condition \notin Conditions
          THEN status' = 400 /\ alerts' = alerts
          ELSE status' = 200 /\ result'.alert = request']_vars

\* C3: DELETE /alerts/{index} with index < 0 or index >= len(alerts) answers
\* 404 and leaves the alert list unchanged, in content and in order.
C3_OutOfRangeDeleteRejected ==
    [][(/\ op' = "delete_alert"
        /\ \/ request'.alert_index < 0
           \/ request'.alert_index >= Len(alerts))
       => (status' = 404 /\ alerts' = alerts)]_vars

\* a negative index was refused on a list that has a last element to lose
C3_Witness ==
    /\ op = "delete_alert"
    /\ request.alert_index < 0
    /\ status = 404
    /\ Len(alerts) >= 1

\* C4: on every failure outcome get_historical_price returns an absent value
\* and leaves the stored price unchanged; on a successful fetch it stores the
\* first element's price and returns it.
C4_FetchAbsorbsFailures ==
    [][op' \in {"get_price", "analyze_price"} =>
          IF FetchSucceeded(request')
          THEN fetched' = request'.price /\ current_price' = request'.price
          ELSE fetched' = Null /\ current_price' = current_price]_vars

\* C5: GET /price answers the fetched price whenever the fetch succeeds and
\* 500 when it fails, and 500 only then.
C5_PriceOr500 ==
    op = "get_price" =>
        IF FetchSucceeded(request)
        THEN status = 200 /\ result.price = request.price.v
        ELSE status = 500

\* C6: analyze_price_trend agrees with the reference classifier: fewer than 2
\* prices give exactly {unknown, 0.0}; otherwise, for a nonzero first price,
\* change_pct = (last - first) / first * 100, bullish with confidence
\* min(0.5 + change_pct/10, 0.95) iff change_pct > 2, bearish with confidence
\* min(0.5 + |change_pct|/10, 0.95) iff change_pct < -2, neutral with 0.7
\* otherwise; the confidence lies in [0, 0.95].
C6_TrendMatchesReference ==
    op = "analyze_price_trend" =>
        LET ps == request.prices
            f == ps[1].n
            c == ps[Len(ps)].n - ps[1].n
            bull == (f > 0 /\ 100 * c > 2 * f) \/ (f < 0 /\ 100 * c < 2 * f)
            bear == (f > 0 /\ 100 * c < -2 * f) \/ (f < 0 /\ 100 * c > -2 * f)
            capped == 20 * (Abs(f) + 20 * Abs(c)) > 19 * 2 * Abs(f)
            conf == result.confidence
        IN  IF Len(ps) < 2
            THEN status = 200 /\ result = [trend |-> "unknown", confidence |-> RInt(0)]
            ELSE f # 0 =>
                 /\ status = 200
                 /\ result.change_pct.n * f = 100 * c * result.change_pct.d
                 /\ result.trend = "bullish" <=> bull
                 /\ result.trend = "bearish" <=> bear
                 /\ result.trend = "neutral" <=> (~bull /\ ~bear)
                 /\ result.trend \in {"bullish", "bearish"} =>
                       IF capped
                       THEN conf.n * 20 = 19 * conf.d
                       ELSE conf.n * 2 * Abs(f) = (Abs(f) + 20 * Abs(c)) * conf.d
                 /\ result.trend = "neutral" => conf.n * 10 = 7 * conf.d
                 /\ conf.d > 0 /\ conf.n >= 0 /\ conf.n * 20 <= 19 * conf.d

\* a change of exactly 2 percent was classified
C6_Witness ==
    /\ op = "analyze_price_trend"
    /\ request.prices = <<RInt(100), RInt(102)>>
    /\ result.trend = "neutral"

\* C7: no PriceAlert whose condition is outside greater_than and less_than
\* can be constructed, by any caller.
C7_ConstructionRejectsUnknownCondition ==
    op = "PriceAlert" /\ status = 200 => result.object.condition \in Conditions

\* C8: check_alerts leaves the alert list and the stored price as they are,
\* and a call repeated with the same price reports the same triggered alerts.
C8_CheckAlertsNoSideEffects ==
    [][op' = "check_alerts" =>
          /\ alerts' = alerts
          /\ current_price' = current_price
          /\ (op = "check_alerts" /\ request.price = request'.price)
                => result' = result]_vars

\* check_alerts reported a trigger while a price was stored
C8_Witness ==
    /\ op = "check_alerts"
    /\ Len(result.triggered) >= 1
    /\ IsNum(current_price)

\* C9: DELETE /alerts/{i} with 0 <= i < len(alerts) removes exactly the alert
\* at position i and keeps the others in order; POST /alerts appends at the
\* end; no other operation touches the list; so the list always holds the
\* surviving alerts in insertion order.
C9_DeleteRemovesExactlyIndex ==
    [][/\ (/\ op' = "delete_alert"
           /\ request'.alert_index >= 0
           /\ request'.alert_index < Len(alerts))
          => (status' = 200 /\ alerts' = Omit(alerts, request'.alert_index))
       /\ (op' = "configure_alert" /\ status' = 200)
          => alerts' = Append(alerts, request')
       /\ op' \notin {"delete_alert", "configure_alert"} => alerts' = alerts
       /\ Len(born') = Len(alerts')
       /\ \A j, k \in 1 .. Len(born') : j < k => born'[j] < born'[k]]_vars

\* the middle alert of three was deleted after a POST had appended the third
C9_Witness ==
    /\ op = "delete_alert"
    /\ status = 200
    /\ request.alert_index = 1
    /\ born = <<1, 3>>

\* C10: POST /analyze does not depend on the fetched price: for every nonzero
\* price the series runs from 0.950*price to 1.049*price, change_pct is
\* 198/19 (about 10.42) and the answer is bullish with confidence 0.95; no
\* bearish or neutral answer is reachable.
C10_AnalyzeAlwaysBullish ==
    op = "analyze_price" =>
        /\ (IsNum(fetched) /\ fetched.v # 0) =>
              /\ status = 200
              /\ SyntheticSeries(fetched.v)[1] = R(950 * fetched.v, 1000)
              /\ SyntheticSeries(fetched.v)[SeriesLen] = R(1049 * fetched.v, 1000)
              /\ result.change_pct = R(198, 19)
              /\ result.trend = "bullish"
              /\ result.confidence = R(95, 100)
        /\ status = 200 => result.trend = "bullish"

\* the analysis ran on a fetched price below zero
C10_Witness ==
    /\ op = "analyze_price"
    /\ status = 200
    /\ IsNum(fetched)
    /\ fetched.v < 0

====
